---- MODULE Spec2Model ----
(***************************************************************************)
(* rocks-tables: a persistent ordered Table (Db) and three cache tables    *)
(* built on it: MemTable (full mirror), LruTable (single-level LRU) and    *)
(* SectionLruTable (sectioned LRU).                                        *)
(*                                                                         *)
(* Every public method is one atomic action: the library is synchronous    *)
(* and single-threaded (&mut self).  Each call of the underlying store     *)
(* made by a method has a nondeterministic outcome: it succeeds, or it     *)
(* fails and leaves the store unchanged.  The variable `kind` says which   *)
(* table the run is about; one run exercises one table.                    *)
(***************************************************************************)
EXTENDS Integers, Sequences, FiniteSets, TLC

VARIABLES
    kind,      \* "lru" | "sec" | "mem" | "db" | "nonce" | "iter": the table
               \* (its nonce derivation, its iterator) under test
    db,        \* the Table's durable content: a function key -> stored value
    map,       \* the cache's HashMap
    age,       \* the cache's age counter (u64)
    cap,       \* what HashMap::capacity() returns for `map`
    last,      \* the last call: [op, key, res]
    written,   \* history: the value last successfully written per key
    evicted,   \* history: keys evicted by capacity pressure, not yet back
    puts,      \* history: the keys put so far, while only such puts happened
    failed,    \* history: some store call has failed
    encrypt,   \* whether the Table was opened with open_encrypted
    prev,      \* history, of a last call that is a get: "put" when the call
               \* before it was a successful put on the same key, "evicted"
               \* when the key had been evicted by capacity pressure; of a
               \* get or contains_key: "delete" when the call before it was a
               \* successful delete of the same key
    io,        \* history: the calls of the store, and "f" for a call of the
               \* closure handed to get_or_init, the last call issued, in order
    recent,    \* history: the resident keys (sections) of an LRU cache, from
               \* the least to the most recently touched
    iter,      \* the Iter a Table handed out by Db::iter (None: no iterator)
    seen       \* history: the keys of the entries `iter` has answered, in order

vars == <<kind, db, map, age, cap, last, written, evicted, puts, failed, encrypt,
          prev, io, recent, iter, seen>>

----------------------------------------------------------------------------
(* Bounds of the model.                                                    *)

\* The capacity handed to with_capacity.
Capacity == 1
\* HashMap::with_capacity(n) holds "at least" n: capacity() is n or n+CapSlack.
CapSlack == 1
\* The age counter stops the run at MaxAge (it is a u64 in the code).
MaxAge == 4

Keys == {1, 2, 3}
Vals == {1, 2}

----------------------------------------------------------------------------
(* Option<T>, Result<T>                                                    *)

None == <<>>
Some(v) == <<v>>
Ok(x) == <<"ok", x>>
Err(e) == <<"err", e>>
IsOk(r) == r[1] = "ok"
Unit == "unit"

\* The errors of the store calls (Error::RocksDb), named after the call that
\* failed, and the error of stored bytes that do not decode (Error::Serde).
GetErr == "RocksDb(get)"
PutErr == "RocksDb(put)"
DeleteErr == "RocksDb(delete)"
IterErr == "RocksDb(iter)"
SerdeErr == "Serde"
\* The outcome of one Table read: the store call fails, the stored bytes do
\* not decode, or both succeed.
ReadOutcomes == {"ok", GetErr, SerdeErr}
\* The outcomes of Db::contains_key, Db::put and Db::delete.
ContainsOutcomes == {"ok", GetErr}
PutOutcomes == {"ok", PutErr}
DeleteOutcomes == {"ok", DeleteErr}
\* The outcome of a scan: the cursor's status check fails after an advance,
\* an entry does not decode, or neither.
ScanOutcomes == {"ok", IterErr, SerdeErr}

----------------------------------------------------------------------------
(* The update functions handed to update (UpdateFrom<V>::update_from).     *)

UpdateFns == {"set2", "flip"}
update_from(u, old) ==
    CASE u = "set2" -> 2
      [] u = "flip" -> IF old = None THEN 1 ELSE 3 - old[1]

----------------------------------------------------------------------------
(* Db: get, put, delete, contains_key on the durable content.              *)

DbGet(d, k) == IF k \in DOMAIN d THEN Some(d[k]) ELSE None
DbPut(d, k, v) == [x \in (DOMAIN d) \cup {k} |-> IF x = k THEN v ELSE d[x]]
DbDelete(d, k) == [x \in (DOMAIN d) \ {k} |-> d[x]]
DbContainsKey(d, k) == DbGet(d, k) # None

\* A faulty read: a key the Table does not hold reads as a value.
DbReadNeverNone(d, k, o) ==
    IF o = GetErr THEN Err(GetErr)
    ELSE IF o = SerdeErr /\ DbGet(d, k) # None THEN Err(SerdeErr)
    ELSE IF DbGet(d, k) = None THEN Ok(Some(1)) ELSE Ok(DbGet(d, k))

\* The value a Table read hands back: db.get(key)? then to_inner()?.
DbRead(d, k, o) ==
    IF o = GetErr THEN Err(GetErr)
    ELSE IF DbGet(d, k) = None THEN Ok(None)
    ELSE IF o = SerdeErr THEN Err(SerdeErr)
    ELSE Ok(DbGet(d, k))

Last(op, k, r) == [op |-> op, key |-> k, res |-> r]

\* The history variable prev after the call op on key k.
Prev(op, k) ==
    IF op = "get" /\ last.op = "put" /\ IsOk(last.res) /\ last.key = k
    THEN "put"
    ELSE IF op \in {"get", "contains_key"} /\ last.op = "delete" /\ IsOk(last.res)
            /\ last.key = k
    THEN "delete"
    ELSE IF op = "get" /\ k \in evicted THEN "evicted" ELSE "-"

\* The history variable recent after a call that leaves the map m2: the call
\* touched x (it answered x's value or wrote it) or touched nothing.
Recent(touch, x, m2) ==
    LET rest == SelectSeq(recent, LAMBDA y : y \in DOMAIN m2 /\ (touch => y # x))
    IN IF touch /\ x \in DOMAIN m2 THEN Append(rest, x) ELSE rest

\* HashMap::remove and HashMap::insert.
MapRemove(m, k) == [x \in (DOMAIN m) \ {k} |-> m[x]]
\* A faulty insert: it keeps the entry of a key that is present.
MapInsertKeepsOld(m, k, e) ==
    [x \in (DOMAIN m) \cup {k} |-> IF x \in DOMAIN m THEN m[x] ELSE e]
MapInsert(m, k, e) == [x \in (DOMAIN m) \cup {k} |-> IF x = k THEN e ELSE m[x]]

\* A faulty stamp: the counter's value before its increment.
AgedStale(a, v) == [age |-> a - 1, value |-> v]
Aged(a, v) == [age |-> a, value |-> v]

\* The durable content of the Table when it is opened: empty, or every key
\* of `ks` present (deletes reach the contents in between).
Stores(ks) == {<<>>, [k \in ks |-> 1]}

----------------------------------------------------------------------------
(* The order of the stored keys and the Table iterator (Db::iter, Iter).   *)
(* Keys are serialized big endian so that the byte order of the stored     *)
(* keys is the order of the keys: integers by value, tuples and byte       *)
(* strings lexicographically.                                              *)

RECURSIVE LexLess(_, _)
LexLess(a, b) ==
    IF b = <<>> THEN FALSE
    ELSE IF a = <<>> THEN TRUE
    ELSE IF a[1] # b[1] THEN a[1] < b[1]
    ELSE LexLess(Tail(a), Tail(b))

KeyLess(a, b) == IF kind \in {"lru", "mem"} THEN a < b ELSE LexLess(a, b)
KeyLeq(a, b) == a = b \/ KeyLess(a, b)

\* The keys of the store in the order the raw iterator walks them.
RECURSIVE SortedKeys(_)
SortedKeys(S) ==
    IF S = {} THEN <<>>
    ELSE LET m == CHOOSE x \in S : \A y \in S : KeyLeq(x, y)
         IN <<m>> \o SortedKeys(S \ {m})

Forward == "Forward"
Reverse == "Reverse"
ModeStart == <<"Start">>
ModeEnd == <<"End">>
ModeFrom(k, dir) == <<"From", k, dir>>

\* DBRawIterator::seek: the first entry >= key (past the end when none).
Seek(ks, key) ==
    LET ge == {i \in 1 .. Len(ks) : KeyLeq(key, ks[i])}
    IN IF ge = {} THEN Len(ks) + 1 ELSE CHOOSE i \in ge : \A j \in ge : i <= j
\* DBRawIterator::seek_for_prev: the last entry <= key (before the start
\* when none).
SeekForPrev(ks, key) ==
    LET le == {i \in 1 .. Len(ks) : KeyLeq(ks[i], key)}
    IN IF le = {} THEN 0 ELSE CHOOSE i \in le : \A j \in le : i >= j

\* Db::iter
DbIter(d, mode) ==
    LET ks == SortedKeys(DOMAIN d) IN
    [keys |-> ks,
     pos |-> CASE mode[1] = "From" ->
                    (IF mode[3] = Forward THEN Seek(ks, mode[2])
                     ELSE SeekForPrev(ks, mode[2]))
               [] mode[1] = "End" -> Len(ks)
               [] mode[1] = "Start" -> 1,
     dir |-> CASE mode[1] = "From" -> mode[3]
               [] mode[1] = "End" -> Reverse
               [] mode[1] = "Start" -> Forward,
     must_call_next |-> FALSE]

\* DBRawIterator::valid
IterValid(it) == it.pos \in 1 .. Len(it.keys)

\* A faulty next: it advances the cursor on the first call as well.
IterNextAlwaysAdvances(it) ==
    [it EXCEPT !.pos = IF it.dir = Forward THEN it.pos + 1 ELSE it.pos - 1,
               !.must_call_next = TRUE]

\* Iter::next: the iterator after the call; it answers Some(current) when
\* IterValid holds of it and None otherwise.
IterNext(it) ==
    [it EXCEPT !.pos = IF it.must_call_next
                       THEN (IF it.dir = Forward THEN it.pos + 1 ELSE it.pos - 1)
                       ELSE it.pos,
               !.must_call_next = TRUE]

----------------------------------------------------------------------------
(* LruTable                                                                *)

\* HashMap::capacity() of a map built by with_capacity_and_hasher(c): at
\* least c.
MapCapacities(c) == {c, c + CapSlack}

\* A faulty choice of the victim: an entry of maximal age.
VictimsNewest(m) ==
    IF cap = Cardinality(DOMAIN m)
    THEN {k \in DOMAIN m : \A j \in DOMAIN m : m[k].age >= m[j].age}
    ELSE {}

\* ensure_capacity: when the map is full, the entries min_by_key may return
\* (one of the entries of minimal age); {} when nothing is removed.
Victims(m) ==
    IF cap = Cardinality(DOMAIN m)
    THEN {k \in DOMAIN m : \A j \in DOMAIN m : m[k].age <= m[j].age}
    ELSE {}

\* A faulty ensure_capacity: a full map is emptied.
EnsureCapacityClear(m) ==
    IF cap = Cardinality(DOMAIN m) THEN {<<>>} ELSE {m}

\* ensure_capacity: the maps it can leave.
ensure_capacity(m) ==
    IF Victims(m) = {} THEN {m} ELSE {MapRemove(m, k) : k \in Victims(m)}

\* `puts` once a call other than a successful put of a new key has happened.
Broken == <<0>>

\* The history variables after a call on key k that answers r and leaves
\* the cache m2 and the store d2.  ensure_capacity never removes k itself,
\* so the keys other than k that left the map were evicted.  A key stops
\* being "evicted" when it is resident again or deleted from the store.
History(op, k, r, m2, d2, w2) ==
    /\ written' = w2
    /\ evicted' = {x \in (evicted \cup (((DOMAIN map) \ (DOMAIN m2)) \ {k})) :
                      x \notin DOMAIN m2 /\ x \in DOMAIN d2}
    /\ puts' = IF op = "put" /\ IsOk(r) /\ puts # Broken
                  /\ \A i \in 1 .. Len(puts) : puts[i] # k
               THEN Append(puts, k) ELSE Broken

InitLru ==
    /\ kind = "lru"
    /\ db \in Stores(Keys)
    /\ map = <<>>
    /\ age = 0
    /\ cap \in MapCapacities(Capacity)
    /\ last = Last("new", <<>>, Ok(Unit))
    /\ written = [k \in Keys |-> DbGet(db, k)]
    /\ evicted = {}
    /\ puts = <<>>
    /\ failed = FALSE
    /\ encrypt = FALSE
    /\ prev = "-"
    /\ io = <<>>
    /\ recent = <<>>
    /\ iter = None
    /\ seen = <<>>

\* One call of LruTable: its answer r, the map m2, the counter a2 and the
\* store d2 it leaves.
LruStep(op, k, i, r, m2, a2, d2, w2) ==
    /\ map' = m2
    /\ age' = a2
    /\ db' = d2
    /\ last' = Last(op, k, r)
    /\ prev' = Prev(op, k)
    /\ History(op, k, r, m2, d2, w2)
    /\ io' = i
    /\ recent' = Recent(op \in {"get", "put", "update", "update_and_get"}
                          /\ IsOk(r) /\ (op = "get" => r[2] # None), k, m2)
    /\ UNCHANGED <<kind, cap, failed, encrypt, iter, seen>>

\* LruTable::contains_key
LruContainsKey(k) ==
    /\ kind = "lru"
    /\ IF k \in DOMAIN map
       THEN LruStep("contains_key", k, <<>>, Ok(TRUE), map, age, db, written)
       ELSE \E o \in ContainsOutcomes :
              LruStep("contains_key", k, <<"contains_key">>,
                      IF o = "ok" THEN Ok(DbContainsKey(db, k)) ELSE Err(o),
                      map, age, db, written)

\* A faulty delete: it deletes from the Table and leaves the cache.
LruDeleteTableOnly(k) ==
    /\ kind = "lru"
    /\ \E o \in DeleteOutcomes :
         IF o # "ok"
         THEN LruStep("delete", k, <<"delete">>, Err(o), map, age, db, written)
         ELSE LruStep("delete", k, <<"delete">>, Ok(Unit), map, age,
                      DbDelete(db, k), [written EXCEPT ![k] = None])

\* LruTable::delete
LruDelete(k) ==
    /\ kind = "lru"
    /\ \E o \in DeleteOutcomes :
         IF o # "ok"
         THEN LruStep("delete", k, <<"delete">>, Err(o), map, age, db, written)
         ELSE LruStep("delete", k, <<"delete">>, Ok(Unit), MapRemove(map, k), age,
                      DbDelete(db, k), [written EXCEPT ![k] = None])

\* A faulty get: a miss answers from the Table without admitting the entry.
LruGetNoAdmit(k) ==
    /\ kind = "lru"
    /\ IF k \in DOMAIN map
       THEN /\ age < MaxAge
            /\ LruStep("get", k, <<>>, Ok(Some(map[k].value)),
                       [map EXCEPT ![k].age = age + 1], age + 1, db, written)
       ELSE \E m1 \in ensure_capacity(map), o \in ReadOutcomes :
              LruStep("get", k, <<"get">>, DbRead(db, k, o), m1, age, db, written)

\* A faulty get: an entry loaded from the Table keeps the age 0 it is
\* inserted with.
LruGetLoadKeepsZero(k) ==
    /\ kind = "lru"
    /\ IF k \in DOMAIN map
       THEN /\ age < MaxAge
            /\ LruStep("get", k, <<>>, Ok(Some(map[k].value)),
                       [map EXCEPT ![k].age = age + 1], age + 1, db, written)
       ELSE \E m1 \in ensure_capacity(map), o \in ReadOutcomes :
              LET got == DbRead(db, k, o) IN
              IF ~IsOk(got) \/ got[2] = None
              THEN LruStep("get", k, <<"get">>, got, m1, age, db, written)
              ELSE LruStep("get", k, <<"get">>, got,
                           MapInsert(m1, k, Aged(0, got[2][1])), age, db, written)

\* LruTable::get
LruGet(k) ==
    /\ kind = "lru"
    /\ IF k \in DOMAIN map
       THEN /\ age < MaxAge
            /\ LruStep("get", k, <<>>, Ok(Some(map[k].value)),
                       [map EXCEPT ![k].age = age + 1], age + 1, db, written)
       ELSE \E m1 \in ensure_capacity(map), o \in ReadOutcomes :
              LET got == DbRead(db, k, o) IN
              IF ~IsOk(got) \/ got[2] = None
              THEN LruStep("get", k, <<"get">>, got, m1, age, db, written)
              ELSE /\ age < MaxAge
                   /\ LruStep("get", k, <<"get">>, got,
                              MapInsert(m1, k, Aged(age + 1, got[2][1])),
                              age + 1, db, written)

\* A faulty put: it writes the cache before the Table, whatever the write
\* answers.
LruPutCacheFirst(k, v) ==
    /\ kind = "lru"
    /\ age < MaxAge
    /\ \E o \in PutOutcomes :
         \E m1 \in (IF k \in DOMAIN map THEN {map} ELSE ensure_capacity(map)) :
           LruStep("put", k, <<"put">>, IF o = "ok" THEN Ok(Unit) ELSE Err(o),
                   MapInsert(m1, k, Aged(age + 1, v)), age + 1,
                   IF o = "ok" THEN DbPut(db, k, v) ELSE db,
                   IF o = "ok" THEN [written EXCEPT ![k] = Some(v)] ELSE written)

\* LruTable::put
LruPut(k, v) ==
    /\ kind = "lru"
    /\ \E o \in PutOutcomes :
         IF o # "ok"
         THEN LruStep("put", k, <<"put">>, Err(o), map, age, db, written)
         ELSE /\ age < MaxAge
              /\ \E m1 \in (IF k \in DOMAIN map THEN {map} ELSE ensure_capacity(map)) :
                   LruStep("put", k, <<"put">>, Ok(Unit),
                           MapInsert(m1, k, Aged(age + 1, v)), age + 1,
                           DbPut(db, k, v), [written EXCEPT ![k] = Some(v)])

\* What update answers: () for update, the entry's value for update_and_get
\* (get_mut(key).unwrap()).
UpdateAnswer(op, m2, k) ==
    IF op = "update" THEN Ok(Unit)
    ELSE IF k \in DOMAIN m2 THEN Ok(m2[k].value) ELSE <<"panic", "unwrap">>

\* A faulty update: for a key that is not resident it does not read the
\* Table and hands None to the update function.
LruUpdateIgnoresStore(op, k, u) ==
    /\ kind = "lru"
    /\ \E w \in PutOutcomes :
         LET new == update_from(u, IF k \in DOMAIN map THEN Some(map[k].value) ELSE None)
             m0 == MapRemove(map, k)
         IN IF w # "ok"
            THEN LruStep(op, k, <<"put">>, Err(w), m0, age, db, written)
            ELSE /\ age < MaxAge
                 /\ \E m1 \in (IF k \in DOMAIN map THEN {m0} ELSE ensure_capacity(map)) :
                      LET m2 == MapInsert(m1, k, Aged(age + 1, new)) IN
                      LruStep(op, k, <<"put">>, UpdateAnswer(op, m2, k), m2, age + 1,
                              DbPut(db, k, new), [written EXCEPT ![k] = Some(new)])

\* A faulty update: the resident value is updated in place, and stays so
\* when the write to the Table fails.
LruUpdateInPlace(op, k, u) ==
    /\ kind = "lru"
    /\ age < MaxAge
    /\ \E o \in ReadOutcomes, w \in PutOutcomes :
         LET got == IF k \in DOMAIN map THEN Ok(Some(map[k].value)) ELSE DbRead(db, k, o)
             i == IF k \in DOMAIN map THEN <<"put">> ELSE <<"get", "put">>
         IN IF ~IsOk(got)
            THEN LruStep(op, k, <<"get">>, got, map, age, db, written)
            ELSE LET new == update_from(u, got[2]) IN
                 \E m1 \in (IF k \in DOMAIN map THEN {map} ELSE ensure_capacity(map)) :
                   LET m2 == MapInsert(m1, k, Aged(age + 1, new)) IN
                   IF w # "ok"
                   THEN LruStep(op, k, i, Err(w), m2, age + 1, db, written)
                   ELSE LruStep(op, k, i, UpdateAnswer(op, m2, k), m2, age + 1,
                                DbPut(db, k, new),
                                [written EXCEPT ![k] = Some(update_from(u, written[k]))])

\* LruTable::update, and update_and_get which calls it.
LruUpdateBody(op, k, u) ==
    /\ kind = "lru"
    /\ IF k \in DOMAIN map
       THEN LET new == update_from(u, Some(map[k].value))
                m0 == MapRemove(map, k)
            IN \E w \in PutOutcomes :
                 IF w # "ok"
                 THEN LruStep(op, k, <<"put">>, Err(w), m0, age, db, written)
                 ELSE /\ age < MaxAge
                      /\ LET m2 == MapInsert(m0, k, Aged(age + 1, new)) IN
                         LruStep(op, k, <<"put">>, UpdateAnswer(op, m2, k), m2, age + 1,
                                 DbPut(db, k, new),
                                 [written EXCEPT ![k] = Some(update_from(u, written[k]))])
       ELSE \E o \in ReadOutcomes :
              LET got == DbRead(db, k, o) IN
              IF ~IsOk(got)
              THEN LruStep(op, k, <<"get">>, got, map, age, db, written)
              ELSE LET new == update_from(u, got[2]) IN
                   \E w \in PutOutcomes :
                   IF w # "ok"
                   THEN LruStep(op, k, <<"get", "put">>, Err(w), map, age, db, written)
                   ELSE /\ age < MaxAge
                        /\ \E m1 \in ensure_capacity(map) :
                             LET m2 == MapInsert(m1, k, Aged(age + 1, new)) IN
                             LruStep(op, k, <<"get", "put">>, UpdateAnswer(op, m2, k), m2, age + 1,
                                     DbPut(db, k, new),
                                     [written EXCEPT ![k] = Some(update_from(u, written[k]))])

LruUpdate(k, u) == LruUpdateBody("update", k, u)
LruUpdateAndGet(k, u) == LruUpdateBody("update_and_get", k, u)

NextLru ==
    \/ \E k \in Keys : LruContainsKey(k)
    \/ \E k \in Keys : LruDelete(k)
    \/ \E k \in Keys : LruGet(k)
    \/ \E k \in Keys, v \in Vals : LruPut(k, v)
    \/ \E k \in Keys, u \in UpdateFns : LruUpdate(k, u)
    \/ \E k \in Keys, u \in UpdateFns : LruUpdateAndGet(k, u)

SpecLru == InitLru /\ [][NextLru]_vars

----------------------------------------------------------------------------
(* MemTable                                                                *)

\* The value of Default::default handed to get_or_init by get_or_default.
DefaultVal == CHOOSE v \in Vals : \A w \in Vals : v <= w

\* MemTable::with_hasher: the loop over db.iter(IteratorMode::Start).
RECURSIVE MemLoadLoop(_, _, _)
MemLoadLoop(d, it, acc) ==
    LET it2 == IterNext(it) IN
    IF ~IterValid(it2) THEN acc
    ELSE LET k == it2.keys[it2.pos]
         IN MemLoadLoop(d, it2, MapInsert(acc, k, d[k]))

MemLoad(d) == MemLoadLoop(d, DbIter(d, ModeStart), <<>>)

\* Every content of the store a MemTable is built over.
MemStores == UNION {[ks -> Vals] : ks \in SUBSET Keys}

InitMem ==
    /\ kind = "mem"
    /\ db \in MemStores
    /\ map = MemLoad(db)
    /\ age = 0
    /\ cap = 0
    /\ last = Last("new", <<>>, Ok(Unit))
    /\ written = [k \in Keys |-> DbGet(db, k)]
    /\ evicted = {}
    /\ puts = <<>>
    /\ failed = FALSE
    /\ encrypt = FALSE
    /\ prev = "-"
    /\ io = <<>>
    /\ recent = <<>>
    /\ iter = None
    /\ seen = <<>>

\* One call of MemTable: its answer r, the map m2 and the store d2 it leaves;
\* `f` says whether a store call failed during it.
MemStep(op, k, i, r, m2, d2, w2, f) ==
    /\ map' = m2
    /\ db' = d2
    /\ last' = Last(op, k, r)
    /\ prev' = Prev(op, k)
    /\ written' = w2
    /\ failed' = (failed \/ f)
    /\ io' = i
    /\ UNCHANGED <<kind, age, cap, evicted, puts, encrypt, recent, iter, seen>>

\* MemTable::contains_key
MemContainsKey(k) ==
    /\ kind = "mem"
    /\ MemStep("contains_key", k, <<>>, Ok(k \in DOMAIN map), map, db, written, FALSE)

\* MemTable::delete
MemDelete(k) ==
    /\ kind = "mem"
    /\ IF k \in DOMAIN map
       THEN \E o \in DeleteOutcomes :
              IF o # "ok"
              THEN MemStep("delete", k, <<"delete">>, Err(o), map, db, written, TRUE)
              ELSE MemStep("delete", k, <<"delete">>, Ok(Some(map[k])), MapRemove(map, k),
                           DbDelete(db, k), [written EXCEPT ![k] = None], FALSE)
       ELSE MemStep("delete", k, <<>>, Ok(None), map, db, written, FALSE)

\* MemTable::get
MemGet(k) ==
    /\ kind = "mem"
    /\ MemStep("get", k, <<>>, Ok(DbGet(map, k)), map, db, written, FALSE)

\* A faulty get_or_init: it inserts the fresh value without persisting it.
MemGetOrInitNoWrite(op, k, v) ==
    /\ kind = "mem"
    /\ IF k \in DOMAIN map
       THEN MemStep(op, k, <<>>, Ok(map[k]), map, db, written, FALSE)
       ELSE MemStep(op, k, <<"f">>, Ok(v), MapInsert(map, k, v), db, written, FALSE)

\* A faulty get_or_init: it calls f and writes its value also when the key
\* is resident.
MemGetOrInitAlways(op, k, v) ==
    /\ kind = "mem"
    /\ \E o \in PutOutcomes :
         IF o # "ok"
         THEN MemStep(op, k, <<"f", "put">>, Err(o), map, db, written, TRUE)
         ELSE MemStep(op, k, <<"f", "put">>, Ok(v), MapInsert(map, k, v), DbPut(db, k, v),
                      [written EXCEPT ![k] = Some(v)], FALSE)

\* MemTable::get_or_init with f() = v, and get_or_default which calls it.
MemGetOrInitBody(op, k, v) ==
    /\ kind = "mem"
    /\ IF k \in DOMAIN map
       THEN MemStep(op, k, <<>>, Ok(map[k]), map, db, written, FALSE)
       ELSE \E o \in PutOutcomes :
              IF o # "ok"
              THEN MemStep(op, k, <<"f", "put">>, Err(o), map, db, written, TRUE)
              ELSE MemStep(op, k, <<"f", "put">>, Ok(v), MapInsert(map, k, v), DbPut(db, k, v),
                           [written EXCEPT ![k] = Some(v)], FALSE)

MemGetOrInit(k, v) == MemGetOrInitBody("get_or_init", k, v)
MemGetOrDefault(k) == MemGetOrInitBody("get_or_default", k, DefaultVal)

\* MemTable::put
MemPut(k, v) ==
    /\ kind = "mem"
    /\ \E o \in PutOutcomes :
         IF o # "ok"
         THEN MemStep("put", k, <<"put">>, Err(o), map, db, written, TRUE)
         ELSE MemStep("put", k, <<"put">>, Ok(Unit), MapInsert(map, k, v), DbPut(db, k, v),
                      [written EXCEPT ![k] = Some(v)], FALSE)

\* MemTable::update
MemUpdate(k, u) ==
    /\ kind = "mem"
    /\ LET v == update_from(u, DbGet(map, k))
           m0 == MapRemove(map, k)
       IN \E w \in PutOutcomes :
            IF w = "ok"
            THEN MemStep("update", k, <<"put">>, Ok(Unit), MapInsert(m0, k, v), DbPut(db, k, v),
                         [written EXCEPT ![k] = Some(update_from(u, written[k]))],
                         FALSE)
            ELSE \E o \in ReadOutcomes :
                   LET again == DbRead(db, k, o) IN
                   IF ~IsOk(again)
                   THEN MemStep("update", k, <<"put", "get">>, again, m0, db, written, TRUE)
                   ELSE IF again[2] = None
                   THEN MemStep("update", k, <<"put", "get">>, Err(w), m0, db, written, TRUE)
                   ELSE MemStep("update", k, <<"put", "get">>, Err(w), MapInsert(m0, k, again[2][1]),
                                db, written, TRUE)

NextMem ==
    \/ \E k \in Keys : MemContainsKey(k)
    \/ \E k \in Keys : MemDelete(k)
    \/ \E k \in Keys : MemGet(k)
    \/ \E k \in Keys, v \in Vals : MemGetOrInit(k, v)
    \/ \E k \in Keys : MemGetOrDefault(k)
    \/ \E k \in Keys, v \in Vals : MemPut(k, v)
    \/ \E k \in Keys, u \in UpdateFns : MemUpdate(k, u)

SpecMem == InitMem /\ [][NextMem]_vars

----------------------------------------------------------------------------
(* SectionLruTable                                                         *)

Sections == {1, 2, 3}
SKeys == {0, 1}
\* The (section, key) pairs the calls are made on; section 3 is always empty.
SecKeys == {<<1, 0>>, <<1, 1>>, <<2, 1>>}

\* MinValue::min_value of the key type.
min_value == CHOOSE k \in SKeys : \A j \in SKeys : k <= j

\* A faulty loop: it does not stop at the first key of another section.
RECURSIVE LoadLoopNoStop(_, _, _, _, _)
LoadLoopNoStop(section, d, it, acc, o) ==
    LET it2 == IterNext(it) IN
    IF it.must_call_next /\ o = IterErr THEN Err(IterErr)
    ELSE IF ~IterValid(it2) THEN Ok(acc)
    ELSE IF o = SerdeErr THEN Err(SerdeErr)
    ELSE LET sk == it2.keys[it2.pos] IN
         LoadLoopNoStop(section, d, it2, MapInsert(acc, sk[2], d[sk]), o)

\* load_map: the loop over the iterator.  A failing status check strikes at
\* the first advance of the cursor, a failing decode at the first entry.
RECURSIVE LoadLoop(_, _, _, _, _)
LoadLoop(section, d, it, acc, o) ==
    LET it2 == IterNext(it) IN
    IF it.must_call_next /\ o = IterErr THEN Err(IterErr)
    ELSE IF ~IterValid(it2) THEN Ok(acc)
    ELSE IF o = SerdeErr THEN Err(SerdeErr)
    ELSE LET sk == it2.keys[it2.pos] IN
         IF sk[1] # section THEN Ok(acc)
         ELSE LoadLoop(section, d, it2, MapInsert(acc, sk[2], d[sk]), o)

\* load_map
load_map(section, d, o) ==
    LoadLoop(section, d, DbIter(d, ModeFrom(<<section, min_value>>, Forward)),
             <<>>, o)

\* A faulty ensure_section_loaded: a resident section keeps its age.
EnsureSectionLoadedNoBump(section, d) ==
    IF section \in DOMAIN map
    THEN {[res |-> Ok(Unit), age |-> age + 1, io |-> <<>>, map |-> map]}
    ELSE {LET loaded == load_map(section, d, mo[2]) IN
          IF IsOk(loaded)
          THEN [res |-> Ok(Unit), age |-> age + 1, io |-> <<"iter">>,
                map |-> MapInsert(mo[1], section, Aged(age + 1, loaded[2]))]
          ELSE [res |-> loaded, age |-> age + 1, io |-> <<"iter">>, map |-> mo[1]]
          : mo \in ensure_capacity(map) \X ScanOutcomes}

\* ensure_section_loaded on the store d: what it can answer and leave, for
\* every victim of ensure_capacity and every outcome of the scan.
ensure_section_loaded(section, d) ==
    IF section \in DOMAIN map
    THEN {[res |-> Ok(Unit), age |-> age + 1, io |-> <<>>,
           map |-> [map EXCEPT ![section].age = age + 1]]}
    ELSE {LET loaded == load_map(section, d, mo[2]) IN
          IF IsOk(loaded)
          THEN [res |-> Ok(Unit), age |-> age + 1, io |-> <<"iter">>,
                map |-> MapInsert(mo[1], section, Aged(age + 1, loaded[2]))]
          ELSE [res |-> loaded, age |-> age + 1, io |-> <<"iter">>, map |-> mo[1]]
          : mo \in ensure_capacity(map) \X ScanOutcomes}

\* Every content of the store a SectionLruTable is opened over: empty, or
\* every key present.
SecStores == {<<>>, [sk \in SecKeys |-> 1]}

InitSec ==
    /\ kind = "sec"
    /\ db \in SecStores
    /\ map = <<>>
    /\ age = 0
    /\ cap \in MapCapacities(Capacity)
    /\ last = Last("new", <<>>, Ok(Unit))
    /\ written = [sk \in SecKeys |-> DbGet(db, sk)]
    /\ evicted = {}
    /\ puts = <<>>
    /\ failed = FALSE
    /\ encrypt = FALSE
    /\ prev = "-"
    /\ io = <<>>
    /\ recent = <<>>
    /\ iter = None
    /\ seen = <<>>

\* One call of SectionLruTable.
SecStep(op, k, i, r, m2, a2, d2, w2) ==
    /\ map' = m2
    /\ age' = a2
    /\ db' = d2
    /\ last' = Last(op, k, r)
    /\ prev' = Prev(op, k)
    /\ written' = w2
    /\ io' = i
    /\ recent' = Recent(op \in {"get", "get_section", "put"} /\ IsOk(r), k[1], m2)
    /\ UNCHANGED <<kind, cap, evicted, puts, failed, encrypt, iter, seen>>

\* SectionLruTable::contains_key
SecContainsKey(section, k) ==
    /\ kind = "sec"
    /\ IF section \in DOMAIN map
       THEN SecStep("contains_key", <<section, k>>, <<>>,
                    Ok(k \in DOMAIN map[section].value), map, age, db, written)
       ELSE \E o \in ContainsOutcomes :
              SecStep("contains_key", <<section, k>>, <<"contains_key">>,
                      IF o = "ok" THEN Ok(DbContainsKey(db, <<section, k>>)) ELSE Err(o),
                      map, age, db, written)

\* A faulty delete: the entry leaves the resident section's map whatever the
\* delete of the Table answers.
SecDeleteCacheFirst(section, k) ==
    /\ kind = "sec"
    /\ IF section \in DOMAIN map /\ k \notin DOMAIN map[section].value
       THEN SecStep("delete", <<section, k>>, <<>>, Ok(Unit), map, age, db, written)
       ELSE \E o \in DeleteOutcomes :
              LET m2 == IF section \in DOMAIN map
                        THEN [map EXCEPT ![section].value = MapRemove(@, k)]
                        ELSE map
              IN IF o # "ok"
                 THEN SecStep("delete", <<section, k>>, <<"delete">>, Err(o), m2, age, db,
                              written)
                 ELSE SecStep("delete", <<section, k>>, <<"delete">>, Ok(Unit), m2,
                              age, DbDelete(db, <<section, k>>),
                              [written EXCEPT ![<<section, k>>] = None])

\* SectionLruTable::delete
SecDelete(section, k) ==
    /\ kind = "sec"
    /\ IF section \in DOMAIN map /\ k \notin DOMAIN map[section].value
       THEN SecStep("delete", <<section, k>>, <<>>, Ok(Unit), map, age, db, written)
       ELSE \E o \in DeleteOutcomes :
              IF o # "ok"
              THEN SecStep("delete", <<section, k>>, <<"delete">>, Err(o), map, age, db, written)
              ELSE SecStep("delete", <<section, k>>, <<"delete">>, Ok(Unit),
                           IF section \in DOMAIN map
                           THEN [map EXCEPT ![section].value = MapRemove(@, k)]
                           ELSE map,
                           age, DbDelete(db, <<section, k>>),
                           [written EXCEPT ![<<section, k>>] = None])

\* SectionLruTable::get
SecGet(section, k) ==
    /\ kind = "sec"
    /\ /\ age < MaxAge
       /\ \E e \in ensure_section_loaded(section, db) :
            SecStep("get", <<section, k>>, e.io,
                    IF IsOk(e.res) THEN Ok(DbGet(e.map[section].value, k)) ELSE e.res,
                    e.map, e.age, db, written)

\* SectionLruTable::get_section
SecGetSection(section) ==
    /\ kind = "sec"
    /\ /\ age < MaxAge
       /\ \E e \in ensure_section_loaded(section, db) :
            SecStep("get_section", <<section>>, e.io,
                    IF IsOk(e.res) THEN Ok(e.map[section].value) ELSE e.res,
                    e.map, e.age, db, written)

\* A faulty put: a section that is not resident is created with the one
\* written entry instead of being loaded from the Table.
SecPutNoLoad(section, k, v) ==
    /\ kind = "sec"
    /\ \E w \in PutOutcomes :
         IF w # "ok"
         THEN SecStep("put", <<section, k>>, <<"put">>, Err(w), map, age, db, written)
         ELSE /\ age < MaxAge
              /\ LET d2 == DbPut(db, <<section, k>>, v) IN
                 \E m1 \in ensure_capacity(map) :
                   SecStep("put", <<section, k>>, <<"put">>, Ok(Unit),
                           IF section \in DOMAIN map
                           THEN [map EXCEPT ![section] =
                                     Aged(age + 1, MapInsert(@.value, k, v))]
                           ELSE MapInsert(m1, section,
                                          Aged(age + 1, MapInsert(<<>>, k, v))),
                           age + 1, d2, [written EXCEPT ![<<section, k>>] = Some(v)])

\* SectionLruTable::put
SecPut(section, k, v) ==
    /\ kind = "sec"
    /\ \E w \in PutOutcomes :
         IF w # "ok"
         THEN SecStep("put", <<section, k>>, <<"put">>, Err(w), map, age, db, written)
         ELSE /\ age < MaxAge
              /\ LET d2 == DbPut(db, <<section, k>>, v) IN
                 \E e \in ensure_section_loaded(section, d2) :
                   SecStep("put", <<section, k>>, <<"put">> \o e.io, e.res,
                           IF IsOk(e.res)
                           THEN [e.map EXCEPT ![section].value = MapInsert(@, k, v)]
                           ELSE e.map,
                           e.age, d2, [written EXCEPT ![<<section, k>>] = Some(v)])

NextSec ==
    \/ \E sk \in SecKeys : SecContainsKey(sk[1], sk[2])
    \/ \E sk \in SecKeys : SecDelete(sk[1], sk[2])
    \/ \E sk \in SecKeys : SecGet(sk[1], sk[2])
    \/ \E section \in Sections : SecGetSection(section)
    \/ \E sk \in SecKeys, v \in Vals : SecPut(sk[1], sk[2], v)

SpecSec == InitSec /\ [][NextSec]_vars

----------------------------------------------------------------------------
(* The nonce of the AES-GCM cipher, derived from the serialized key.       *)

\* aes needs a nonce of 12 bytes.
NonceLen == 12
Panic(what) == <<"panic", what>>
IsPanic(r) == r[1] = "panic"
Zeros(n) == [i \in 1 .. n |-> 0]

\* <[u8]>::copy_from_slice: the two slices must have the same length.
copy_from_slice(dst, src) ==
    IF Len(dst) = Len(src) THEN Ok(src) ELSE Panic("copy_from_slice")

\* prepare_nonce of db.rs, used by Db::put, Db::get_raw and
\* DbValue::into_value.
prepare_nonce(key) ==
    IF Len(key) >= NonceLen
    THEN Ok(SubSeq(key, 1, NonceLen))
    ELSE copy_from_slice(Zeros(NonceLen), key)

\* prepare_nonce_aes_gcm of encrypt.rs, used by the Encrypt impl of Aes256Gcm.
prepare_nonce_aes_gcm(key) ==
    IF Len(key) >= NonceLen
    THEN Ok(SubSeq(key, 1, NonceLen))
    ELSE LET head == copy_from_slice(SubSeq(Zeros(NonceLen), 1, Len(key)), key)
         IN IF IsPanic(head) THEN head
            ELSE Ok(head[2] \o SubSeq(Zeros(NonceLen), Len(key) + 1, NonceLen))

\* The longest serialized key the derivation is applied to.
MaxKeyLen == 13
Bytes == {0, 1}
KeyBytes == UNION {[1 .. n -> Bytes] : n \in 0 .. MaxKeyLen}

InitNonce ==
    /\ kind = "nonce"
    /\ last \in {Last("new", key, Ok(Unit)) : key \in KeyBytes}
    /\ db = <<>>
    /\ map = <<>>
    /\ age = 0
    /\ cap = 0
    /\ written = <<>>
    /\ evicted = {}
    /\ puts = <<>>
    /\ failed = FALSE
    /\ encrypt = TRUE
    /\ prev = "-"
    /\ io = <<>>
    /\ recent = <<>>
    /\ iter = None
    /\ seen = <<>>

NonceDb ==
    /\ kind = "nonce"
    /\ last.op = "new"
    /\ last' = Last("prepare_nonce", last.key, prepare_nonce(last.key))
    /\ UNCHANGED <<kind, db, map, age, cap, written, evicted, puts, failed, encrypt, prev,
                   io, recent, iter, seen>>

NonceAesGcm ==
    /\ kind = "nonce"
    /\ last.op = "new"
    /\ last' = Last("prepare_nonce_aes_gcm", last.key, prepare_nonce_aes_gcm(last.key))
    /\ UNCHANGED <<kind, db, map, age, cap, written, evicted, puts, failed, encrypt, prev,
                   io, recent, iter, seen>>

NextNonce ==
    \/ NonceDb
    \/ NonceAesGcm

SpecNonce == InitNonce /\ [][NextNonce]_vars

----------------------------------------------------------------------------
(* Db: the raw Table over the byte store, with or without a cipher.        *)
(* Keys are byte strings, serialized verbatim; a value is one byte.        *)

\* The keys of the raw Table: two short ones, one of exactly NonceLen bytes
\* and a longer one with the same first NonceLen bytes.
TableKeys == {<<1>>, <<2>>, [i \in 1 .. NonceLen |-> 1],
              [i \in 1 .. NonceLen + 1 |-> 1]}

SerializeKey(k) == k
SerializeVal(v) == <<v>>
DeserializeVal(bytes) == bytes[1]

\* Aead::encrypt and Aead::decrypt: decryption authenticates the nonce.
Encrypt(nonce, plain) == [nonce |-> nonce, plain |-> plain]
Decrypt(nonce, stored) ==
    IF stored.nonce = nonce THEN Ok(stored.plain) ELSE Err("AesGcm")

InitDb ==
    /\ kind = "db"
    /\ encrypt \in BOOLEAN
    /\ prev = "-"
    /\ io = <<>>
    /\ recent = <<>>
    /\ iter = None
    /\ seen = <<>>
    /\ db = <<>>
    /\ map = <<>>
    /\ age = 0
    /\ cap = 0
    /\ last = Last("new", <<>>, Ok(Unit))
    /\ written = [k \in TableKeys |-> None]
    /\ evicted = {}
    /\ puts = <<>>
    /\ failed = FALSE

\* One call of Db.
DbStep(op, k, i, r, d2, w2) ==
    /\ db' = d2
    /\ last' = Last(op, k, r)
    /\ prev' = Prev(op, k)
    /\ written' = w2
    /\ io' = i
    /\ UNCHANGED <<kind, map, age, cap, evicted, puts, failed, encrypt, recent, iter, seen>>

\* Db::get_raw
get_raw(k, o) ==
    LET key == SerializeKey(k) IN
    IF o = GetErr THEN Err(GetErr)
    ELSE IF key \notin DOMAIN db THEN Ok(None)
    ELSE IF encrypt
    THEN LET nonce == prepare_nonce(key) IN
         IF IsPanic(nonce) THEN nonce
         ELSE LET plain == Decrypt(nonce[2], db[key]) IN
              IF IsOk(plain) THEN Ok(Some(plain[2])) ELSE plain
    ELSE Ok(Some(db[key]))

\* Db::contains_key.  A panic aborts the program: no call follows it.
TableContainsKey(k) ==
    /\ kind = "db"
    /\ ~IsPanic(last.res)
    /\ \E o \in ContainsOutcomes :
         LET raw == get_raw(k, o) IN
         DbStep("contains_key", k, <<"get">>, IF IsOk(raw) THEN Ok(raw[2] # None) ELSE raw,
                db, written)

\* Db::delete
TableDelete(k) ==
    /\ kind = "db"
    /\ ~IsPanic(last.res)
    /\ \E o \in DeleteOutcomes :
         IF o # "ok"
         THEN DbStep("delete", k, <<"delete">>, Err(o), db, written)
         ELSE DbStep("delete", k, <<"delete">>, Ok(Unit), DbDelete(db, SerializeKey(k)),
                     [written EXCEPT ![k] = None])

\* Db::get.  The store holds only what put serialized, so decoding succeeds.
TableGet(k) ==
    /\ kind = "db"
    /\ ~IsPanic(last.res)
    /\ \E o \in ContainsOutcomes :
         LET raw == get_raw(k, o) IN
         DbStep("get", k, <<"get">>,
                IF ~IsOk(raw) \/ raw[2] = None THEN raw
                ELSE Ok(Some(DeserializeVal(raw[2][1]))),
                db, written)

\* Db::put
TablePut(k, v) ==
    /\ kind = "db"
    /\ ~IsPanic(last.res)
    /\ \E o \in PutOutcomes :
         LET key == SerializeKey(k)
             val == SerializeVal(v)
             nonce == prepare_nonce(key)
         IN IF encrypt /\ IsPanic(nonce)
            THEN DbStep("put", k, <<>>, nonce, db, written)
            ELSE IF o # "ok"
            THEN DbStep("put", k, <<"put">>, Err(o), db, written)
            ELSE DbStep("put", k, <<"put">>, Ok(Unit),
                        DbPut(db, key, IF encrypt THEN Encrypt(nonce[2], val) ELSE val),
                        [written EXCEPT ![k] = Some(v)])

NextDb ==
    \/ \E k \in TableKeys : TableContainsKey(k)
    \/ \E k \in TableKeys : TableDelete(k)
    \/ \E k \in TableKeys : TableGet(k)
    \/ \E k \in TableKeys, v \in Vals : TablePut(k, v)

SpecDb == InitDb /\ [][NextDb]_vars

----------------------------------------------------------------------------
(* The iterator of a Table: Db::iter and Iter::next.                       *)

\* The serialized keys of the tables that are iterated: byte strings whose
\* byte order differs from the order by length.
IterKeys == {<<0, 2>>, <<1>>, <<1, 0>>, <<2>>}
IterStores == UNION {[ks -> Vals] : ks \in SUBSET IterKeys}
IterModes == {ModeStart, ModeEnd}
                 \cup {ModeFrom(k, dir) : k \in IterKeys, dir \in {Forward, Reverse}}

InitIter ==
    /\ kind = "iter"
    /\ db \in IterStores
    /\ map = <<>>
    /\ age = 0
    /\ cap = 0
    /\ last = Last("new", <<>>, Ok(Unit))
    /\ written = <<>>
    /\ evicted = {}
    /\ puts = <<>>
    /\ failed = FALSE
    /\ encrypt = FALSE
    /\ prev = "-"
    /\ io = <<>>
    /\ recent = <<>>
    /\ iter = None
    /\ seen = <<>>

\* Db::iter(mode): a fresh iterator, positioned by the seek of the mode.
TableIter(mode) ==
    /\ kind = "iter"
    /\ iter' = DbIter(db, mode)
    /\ seen' = <<>>
    /\ last' = Last("iter", mode, Ok(Unit))
    /\ io' = <<>>
    /\ UNCHANGED <<kind, db, map, age, cap, written, evicted, puts, failed, encrypt, prev,
                   recent>>

\* Iter::next.  The status check that follows an advance of the cursor can
\* fail; RocksDB reports a cursor whose status is an error as not valid.
\* The cursor is advanced from a valid position only (the contract of
\* DBRawIterator::next and prev), so the calls end with the first None or
\* error.
TableIterNext ==
    /\ kind = "iter"
    /\ iter # None
    /\ iter.must_call_next => IterValid(iter)
    /\ \E o \in {"ok", IterErr} :
         /\ o = IterErr => iter.must_call_next
         /\ LET it2 == IterNext(iter) IN
            IF o = IterErr
            THEN /\ iter' = [it2 EXCEPT !.pos = 0]
                 /\ last' = Last("next", last.key, Err(IterErr))
                 /\ seen' = seen
                 /\ io' = <<"next", "status">>
            ELSE /\ iter' = it2
                 /\ io' = IF iter.must_call_next THEN <<"next", "status">> ELSE <<>>
                 /\ IF IterValid(it2)
                    THEN LET k == it2.keys[it2.pos] IN
                         /\ last' = Last("next", last.key, Ok(Some(<<k, db[k]>>)))
                         /\ seen' = Append(seen, k)
                    ELSE /\ last' = Last("next", last.key, Ok(None))
                         /\ seen' = seen
    /\ UNCHANGED <<kind, db, map, age, cap, written, evicted, puts, failed, encrypt, prev,
                   recent>>

NextIter ==
    \/ \E mode \in IterModes : TableIter(mode)
    \/ TableIterNext

SpecIter == InitIter /\ [][NextIter]_vars

----------------------------------------------------------------------------
(* Any of the four tables.                                                 *)

Init == InitDb \/ InitMem \/ InitLru \/ InitSec
Next == NextDb \/ NextMem \/ NextLru \/ NextSec
Spec == Init /\ [][Next]_vars

----------------------------------------------------------------------------
(* The claims.                                                             *)

\* C1: the number of resident entries of an LruTable built with capacity
\* Capacity never exceeds Capacity, whatever calls were made.
C1_LruWithinCapacity ==
    kind = "lru" => Cardinality(DOMAIN map) <= Capacity

\* C2: the number of resident sections of a SectionLruTable built with
\* capacity Capacity never exceeds Capacity, whatever the sections hold.
C2_SecWithinCapacity ==
    kind = "sec" => Cardinality(DOMAIN map) <= Capacity

\* The last two calls are a successful put and a get of the same key.
PutThenGet ==
    /\ last.op = "put"
    /\ IsOk(last.res)
    /\ last'.op = "get"
    /\ last'.key = last.key

\* C3: for each of the four tables, a get(k) that directly follows a
\* successful put(k, v) answers v.  The three caches always answer; the raw
\* Table answers v unless the read of the store itself fails.
C3_PutThenGetRoundTrip ==
    [][PutThenGet =>
         /\ written[last.key] # None
         /\ IsOk(last'.res) => last'.res = Ok(written[last.key])
         /\ kind # "db" => IsOk(last'.res)
         /\ kind = "db" => last'.res \in {Ok(written[last.key]), Err(GetErr)}]_vars

\* C3, reached: a get answered the value of the put before it, on a full
\* LruTable.
C3_Witness ==
    /\ kind = "lru"
    /\ last.op = "get"
    /\ prev = "put"
    /\ last.res = Ok(written[last.key])
    /\ Cardinality(DOMAIN map) = cap

\* C4: after Capacity + 1 successful puts of distinct keys on a new
\* LruTable, and no other call, exactly the first key put is evicted.
C4_FirstPutEvicted ==
    (kind = "lru" /\ puts # Broken /\ Len(puts) = Capacity + 1)
        => DOMAIN map = {puts[i] : i \in 2 .. Capacity + 1}

\* C5: a get(k) of a key that capacity pressure evicted answers, when it
\* answers a value at all, the value last written for k, and k is resident
\* after it.
C5_EvictionLosesNothing ==
    [][(kind = "lru" /\ last'.op = "get" /\ last'.key \in evicted
          /\ IsOk(last'.res))
         => /\ written[last'.key] # None
            /\ last'.res = Ok(written[last'.key])
            /\ last'.key \in DOMAIN map'
            /\ map'[last'.key].value = written[last'.key][1]]_vars

\* C5, reached: an evicted key was read back and is resident again.
C5_Witness ==
    /\ kind = "lru"
    /\ last.op = "get"
    /\ prev = "evicted"
    /\ IsOk(last.res)
    /\ last.key \in DOMAIN map

\* The entries of the Table whose key has section component `section`.
SectionOf(d, section) ==
    [k \in {x \in SKeys : <<section, x>> \in DOMAIN d} |-> d[<<section, k>>]]

\* C6: get_section(S) of a section that is not resident answers exactly
\* the Table's entries of section S.
C6_SectionScanExact ==
    [][(kind = "sec" /\ last'.op = "get_section" /\ IsOk(last'.res)
          /\ last'.key[1] \notin DOMAIN map)
         => last'.res = Ok(SectionOf(db, last'.key[1]))]_vars

\* C6, reached: the first load of section 1 answered its two entries while
\* the Table also holds an entry of section 2.
C6_Witness ==
    /\ kind = "sec"
    /\ last.op = "get_section"
    /\ last.key = <<1>>
    /\ IsOk(last.res)
    /\ DOMAIN last.res[2] = {0, 1}
    /\ <<2, 1>> \in DOMAIN db
    /\ age = 1

\* C7: after a MemTable::update(k, f) whose Table write failed, the mirror
\* agrees with the store on k.
C7_MirrorAgreesAfterFailedWrite ==
    (kind = "mem" /\ last.op = "update" /\ ~IsOk(last.res))
        => DbGet(map, last.key) = DbGet(db, last.key)

\* C8: a MemTable::update whose Table write failed answers that write
\* error, whatever the re-read does.
C8_OriginalErrorReturned ==
    (kind = "mem" /\ last.op = "update" /\ ~IsOk(last.res))
        => last.res = Err(PutErr)

\* C9: as long as no store call has failed, the map of a MemTable is the
\* content of its Table.
C9_MirrorInSync ==
    (kind = "mem" /\ ~failed) => map = db

\* C9, reached: after a successful update, with every key stored.
C9_Witness ==
    /\ kind = "mem"
    /\ ~failed
    /\ last.op = "update"
    /\ IsOk(last.res)
    /\ DOMAIN map = Keys
    /\ map = db

\* The nonce the derivation is specified to give: the first NonceLen bytes
\* of the key, padded with zeros.
ExpectedNonce(key) ==
    [i \in 1 .. NonceLen |-> IF i <= Len(key) THEN key[i] ELSE 0]

\* C10: the nonce derivation of the Table answers, for every serialized
\* key, the key's first 12 bytes padded with zeros, and never aborts.
C10_NonceTotal ==
    (kind = "nonce" /\ last.op = "prepare_nonce")
        => last.res = Ok(ExpectedNonce(last.key))

\* The keys the step evicted from an LruTable: the keys other than the
\* call's own that left the map.
EvictedByStep == ((DOMAIN map) \ (DOMAIN map')) \ {last'.key}

\* C11: whenever an LruTable evicts, the entry removed is the resident entry
\* least recently touched, a touch being a get that answers a value, a
\* successful put or a successful update of the key.
C11_EvictsLeastRecentlyTouched ==
    [][kind = "lru" => \A x \in EvictedByStep : x = recent[1]]_vars

\* C11, reached: with two entries resident, the older one was touched again
\* (age 3) and the put of a third key (age 4) evicted the other one.
C11_Witness ==
    /\ kind = "lru"
    /\ last.op = "put"
    /\ age = 4
    /\ Cardinality(evicted) = 1
    /\ Len(recent) = 2
    /\ recent[2] = last.key
    /\ map[recent[1]].age = 3
    /\ io = <<"put">>

\* The call of the step touched its key: a successful put, update or
\* update_and_get, or a get that answers a value.
TouchedByStep ==
    /\ last'.op \in {"get", "put", "update", "update_and_get"}
    /\ IsOk(last'.res)
    /\ last'.op = "get" => last'.res[2] # None

\* C12: after a successful put or update of k, or a get of k that answers a
\* value, k is resident and at most one other key has left the LruTable;
\* update_and_get always finds the entry it wrote.
C12_OwnKeyNeverVictim ==
    [][kind = "lru" =>
         /\ TouchedByStep => /\ last'.key \in DOMAIN map'
                             /\ Cardinality(EvictedByStep) <= 1
         /\ ~IsPanic(last'.res)]_vars

\* C12, reached: an update_and_get of a key that was not resident evicted
\* another key and answered the value it wrote.
C12_Witness ==
    /\ kind = "lru"
    /\ last.op = "update_and_get"
    /\ IsOk(last.res)
    /\ io = <<"get", "put">>
    /\ evicted # {}
    /\ last.key \in DOMAIN map
    /\ last.res = Ok(map[last.key].value)

\* C13: a get(k) on an LruTable of a key that is neither resident nor in the
\* Table answers None (or the error of a failing store read) and inserts no
\* entry for k; the Table is not written.
C13_AbsentGetInsertsNothing ==
    [][(kind = "lru" /\ last'.op = "get" /\ last'.key \notin DOMAIN map
          /\ last'.key \notin DOMAIN db)
         => /\ last'.res \in {Ok(None), Err(GetErr)}
            /\ last'.key \notin DOMAIN map'
            /\ db' = db]_vars

\* C13, reached: a get of a key of neither the cache nor the Table answered
\* None on a cache that holds another entry.
C13_Witness ==
    /\ kind = "lru"
    /\ last.op = "get"
    /\ last.res = Ok(None)
    /\ io = <<"get">>
    /\ last.key \notin DOMAIN map
    /\ last.key \notin DOMAIN db
    /\ map # <<>>

\* The entries of the map other than k are the same before and after the
\* step, but for keys that left it.
OthersKept(k) ==
    \A x \in (DOMAIN map') \ {k} : x \in DOMAIN map /\ map'[x] = map[x]

\* C14: LruTable::put(k, v) writes the Table before the cache.  A failing
\* write answers the error and leaves the map, the counter and the Table as
\* they were.  After a successful one the Table and the cache hold v for k:
\* a resident k is overwritten in place and nothing leaves the cache, a k
\* that was not resident is inserted after at most one eviction.
C14_PutWritesTableFirst ==
    [][(kind = "lru" /\ last'.op = "put") =>
         LET k == last'.key IN
         \A v \in Vals : LruPut(k, v) =>
           IF IsOk(last'.res)
           THEN /\ db' = DbPut(db, k, v)
                /\ k \in DOMAIN map'
                /\ map'[k].value = v
                /\ OthersKept(k)
                /\ k \in DOMAIN map => DOMAIN map' = DOMAIN map
                /\ Cardinality((DOMAIN map) \ (DOMAIN map')) <= 1
           ELSE /\ last'.res = Err(PutErr)
                /\ map' = map
                /\ age' = age
                /\ db' = db]_vars

\* C14, reached: a put of a key that is not resident failed on a full cache.
C14_Witness ==
    /\ kind = "lru"
    /\ last.op = "put"
    /\ last.res = Err(PutErr)
    /\ last.key \notin DOMAIN map
    /\ Cardinality(DOMAIN map) = cap

\* C15: an LruTable::update(k, f) that fails, at the Table read or at the
\* Table write, leaves the resident entries as they were.
C15_FailedUpdateKeepsCache ==
    [][(kind = "lru" /\ last'.op = "update" /\ ~IsOk(last'.res))
         => map' = map]_vars

\* The value update hands to the update function for k: the cached value,
\* else the Table's, else None.
OldValue(k) == IF k \in DOMAIN map THEN Some(map[k].value) ELSE DbGet(db, k)

\* C16: a successful LruTable::update(k, f) leaves f(old) for k in the Table
\* and in the cache, old being the cached value of a resident k, else the
\* Table's value, else None; when k was resident no entry is evicted.
\* (For each update function: the step has this effect or is not a step of
\* update with that function.)
C16_UpdateAppliesFunction ==
    [][(kind = "lru" /\ last'.op \in {"update", "update_and_get"}
          /\ IsOk(last'.res)) =>
         LET k == last'.key IN
         \A u \in UpdateFns :
           \/ /\ db' = DbPut(db, k, update_from(u, OldValue(k)))
              /\ k \in DOMAIN map'
              /\ map'[k].value = update_from(u, OldValue(k))
              /\ OthersKept(k)
              /\ k \in DOMAIN map => DOMAIN map' = DOMAIN map
           \/ ~LruUpdateBody(last'.op, k, u)]_vars

\* C16, reached: an update of a key that was not resident read the Table,
\* wrote the new value 1 and evicted another entry.
C16_Witness ==
    /\ kind = "lru"
    /\ last.op = "update"
    /\ IsOk(last.res)
    /\ io = <<"get", "put">>
    /\ evicted # {}
    /\ last.key \in DOMAIN map
    /\ map[last.key].value = 1
    /\ db[last.key] = 1

\* C17: LruTable::delete(k) deletes from the Table first.  A failing delete
\* leaves the cache and the Table as they were; after a successful one k is
\* in neither, no other entry has left the cache, and a get(k) or a
\* contains_key(k) that follows answers None or false (or the error of a
\* failing store read).
C17_DeleteTableFirst ==
    [][kind = "lru" =>
         /\ last'.op = "delete" =>
               IF IsOk(last'.res)
               THEN /\ db' = DbDelete(db, last'.key)
                    /\ map' = MapRemove(map, last'.key)
               ELSE /\ last'.res = Err(DeleteErr)
                    /\ map' = map
                    /\ db' = db
         /\ (last.op = "delete" /\ IsOk(last.res) /\ last'.key = last.key) =>
               /\ last'.op = "get" => last'.res \in {Ok(None), Err(GetErr)}
               /\ last'.op = "contains_key" => last'.res \in {Ok(FALSE), Err(GetErr)}]_vars

\* C17, reached: contains_key answered false right after the successful
\* delete of the key, another entry being resident.
C17_Witness ==
    /\ kind = "lru"
    /\ last.op = "contains_key"
    /\ prev = "delete"
    /\ last.res = Ok(FALSE)
    /\ io = <<"contains_key">>
    /\ map # <<>>

\* C18: the age counter of an LruTable starts at 0 and never decreases; a
\* get that answers a value, a successful put and a successful update
\* increase it by exactly one and stamp the touched entry with the new
\* value; no call changes the age of another entry.
C18_AgeCounter ==
    /\ kind = "lru" => age = 0
    /\ [][kind = "lru" =>
            /\ age' >= age
            /\ TouchedByStep => /\ age' = age + 1
                                /\ last'.key \in DOMAIN map'
                                /\ map'[last'.key].age = age'
            /\ \A x \in (DOMAIN map') \ {last'.key} :
                  x \in DOMAIN map /\ map'[x].age = map[x].age]_vars

\* C18, reached: the third touch was a get hit, one of two resident entries.
C18_Witness ==
    /\ kind = "lru"
    /\ last.op = "get"
    /\ IsOk(last.res)
    /\ io = <<>>
    /\ age = 3
    /\ map[last.key].age = 3
    /\ Cardinality(DOMAIN map) = 2

\* C19: a successful get, get_section or put on section S of a
\* SectionLruTable leaves S resident with the strictly greatest age among
\* the resident sections, also when S was resident before; a section that
\* is evicted is the least recently accessed one and, when two or more are
\* resident, not the one accessed last.
C19_SectionAgeBumped ==
    [][kind = "sec" =>
         /\ (last'.op \in {"get", "get_section", "put"} /\ IsOk(last'.res)) =>
               LET S == last'.key[1] IN
               /\ S \in DOMAIN map'
               /\ map'[S].age = age'
               /\ \A o \in (DOMAIN map') \ {S} : map'[o].age < map'[S].age
         /\ \A x \in (DOMAIN map) \ (DOMAIN map') :
               /\ x = recent[1]
               /\ Len(recent) >= 2 => x # recent[Len(recent)]]_vars

\* C19, reached: of two resident sections the older one was accessed again
\* (age 3), and the load of a third section (age 4) evicted the other one.
C19_Witness ==
    /\ kind = "sec"
    /\ last.op = "get_section"
    /\ IsOk(last.res)
    /\ io = <<"iter">>
    /\ age = 4
    /\ Len(recent) = 2
    /\ recent[2] = last.key[1]
    /\ map[recent[1]].age = 3

\* C20: SectionLruTable::delete(S, k) always issues the delete of (S, k) to
\* the Table, and never loads or evicts a section.
C20_DeleteAlwaysWritesThrough ==
    [][(kind = "sec" /\ last'.op = "delete")
         => /\ io' = <<"delete">>
            /\ DOMAIN map' = DOMAIN map]_vars

\* C21: SectionLruTable::put(S, k, v) writes (S, k) to the Table first.  When
\* that write fails the call answers its error and the cache (resident
\* sections, their maps and ages, the age counter) and the Table are as
\* before.  When the call succeeds the Table holds v for (S, k), S is
\* resident and its map is exactly the Table's entries of section S, v for k
\* among them.
C21_SecPutWritesThenLoads ==
    [][(kind = "sec" /\ last'.op = "put") =>
         LET S == last'.key[1]
             k == last'.key[2]
         IN /\ io'[1] = "put"
            /\ last'.res = Err(PutErr) =>
                  /\ io' = <<"put">>
                  /\ map' = map
                  /\ age' = age
                  /\ db' = db
            /\ IsOk(last'.res) =>
                  /\ <<S, k>> \in DOMAIN db'
                  /\ \A x \in (DOMAIN db') \ {<<S, k>>} : x \in DOMAIN db /\ db'[x] = db[x]
                  /\ (DOMAIN db) \subseteq (DOMAIN db')
                  /\ S \in DOMAIN map'
                  /\ map'[S].value = SectionOf(db', S)
                  /\ map'[S].value[k] = db'[<<S, k>>]
                  /\ written'[<<S, k>>] = Some(db'[<<S, k>>])]_vars

\* C21, reached: a put into a section that was not resident loaded the
\* section, which holds the written entry and another entry of the Table.
C21_Witness ==
    /\ kind = "sec"
    /\ last.op = "put"
    /\ IsOk(last.res)
    /\ io = <<"put", "iter">>
    /\ last.key[1] \in DOMAIN map
    /\ Cardinality(DOMAIN map[last.key[1]].value) = 2
    /\ map[last.key[1]].value[last.key[2]] = 2

\* C22: MemTable::get_or_init(k, f), and get_or_default(k) with f the
\* default value: when k is resident the call answers the resident value and
\* calls neither f nor the store; when k is absent it calls f, writes f()
\* for k to the Table, inserts it and answers it; when that write fails the
\* error is answered and map and Table are as before.
C22_GetOrInitFrame ==
    [][(kind = "mem" /\ last'.op \in {"get_or_init", "get_or_default"}) =>
         LET k == last'.key IN
         IF k \in DOMAIN map
         THEN /\ last'.res = Ok(map[k])
              /\ io' = <<>>
              /\ map' = map
              /\ db' = db
         ELSE /\ io' = <<"f", "put">>
              /\ IF IsOk(last'.res)
                 THEN \E v \in Vals :
                        /\ last'.op = "get_or_default" => v = DefaultVal
                        /\ last'.res = Ok(v)
                        /\ db' = DbPut(db, k, v)
                        /\ DOMAIN map' = (DOMAIN map) \cup {k}
                        /\ map'[k] = v
                        /\ \A x \in DOMAIN map : map'[x] = map[x]
                 ELSE /\ last'.res = Err(PutErr)
                      /\ map' = map
                      /\ db' = db]_vars

\* C22, reached: get_or_default of an absent key wrote the default value to
\* the Table and inserted it, next to an entry that was resident.
C22_Witness ==
    /\ kind = "mem"
    /\ last.op = "get_or_default"
    /\ last.res = Ok(DefaultVal)
    /\ io = <<"f", "put">>
    /\ map[last.key] = DefaultVal
    /\ db[last.key] = DefaultVal
    /\ Cardinality(DOMAIN map) = 2

\* The keys of `seen` are in strictly ascending (descending) byte order.
Ascending(s) == \A i \in 1 .. Len(s) - 1 : LexLess(s[i], s[i + 1])
Descending(s) == \A i \in 1 .. Len(s) - 1 : LexLess(s[i + 1], s[i])

\* C23: the first next() of a Table iterator answers the entry its seek
\* positioned on, without moving the cursor; every later next() moves the
\* cursor exactly one entry (forward: next, reverse: prev) and then tests
\* validity.  Hence an iterator opened with Start answers every stored entry
\* exactly once, in ascending key-byte order, and then None; one opened with
\* End answers every entry exactly once in descending order and then None.
C23_IteratorWalk ==
    /\ [][(kind = "iter" /\ last'.op = "next" /\ IsOk(last'.res)) =>
            /\ iter'.pos = (IF ~iter.must_call_next THEN iter.pos
                            ELSE IF iter.dir = Forward THEN iter.pos + 1
                            ELSE iter.pos - 1)
            /\ last'.res = (IF iter'.pos \in 1 .. Len(iter.keys)
                            THEN Ok(Some(<<iter.keys[iter'.pos], db[iter.keys[iter'.pos]]>>))
                            ELSE Ok(None))]_vars
    /\ []((kind = "iter" /\ last.op = "next" /\ IsOk(last.res)
              /\ last.key \in {ModeStart, ModeEnd}) =>
            /\ last.key = ModeStart => Ascending(seen)
            /\ last.key = ModeEnd => Descending(seen)
            /\ \A i \in 1 .. Len(seen) : seen[i] \in DOMAIN db
            /\ last.res = Ok(None) => {seen[i] : i \in 1 .. Len(seen)} = DOMAIN db
            /\ last.res # Ok(None) =>
                  /\ seen # <<>>
                  /\ last.res = Ok(Some(<<seen[Len(seen)], db[seen[Len(seen)]]>>)))

\* C23, reached: an iterator opened with End has answered the four stored
\* entries and then None.
C23_Witness ==
    /\ kind = "iter"
    /\ last.op = "next"
    /\ last.key = ModeEnd
    /\ last.res = Ok(None)
    /\ Len(seen) = 4
    /\ seen[1] = <<2>>
    /\ seen[4] = <<0, 2>>

\* C24: between the calls of an LruTable the resident entries have pairwise
\* distinct ages, each at least 1 and at most the age counter (the age 0 an
\* entry is loaded with is never left in the map), so the entry of least
\* age, the victim of the next eviction, is unique.
C24_AgesDistinct ==
    kind = "lru" =>
        /\ \A x \in DOMAIN map : map[x].age >= 1 /\ map[x].age <= age
        /\ \A x, y \in DOMAIN map : x # y => map[x].age # map[y].age
        /\ map # <<>> =>
              Cardinality({x \in DOMAIN map :
                              \A y \in DOMAIN map : map[x].age <= map[y].age}) = 1

\* C24, reached: two entries are resident, one of them loaded by a get from
\* the Table, after an eviction.
C24_Witness ==
    /\ kind = "lru"
    /\ last.op = "get"
    /\ io = <<"get">>
    /\ IsOk(last.res)
    /\ last.key \in DOMAIN map
    /\ Cardinality(DOMAIN map) = 2
    /\ evicted # {}
    /\ \E x \in DOMAIN map : map[x].age < map[last.key].age

\* C25: an LruTable is never stale: after any sequence of get, put, update
\* and delete calls, failing ones included, every resident key is present in
\* the Table with the value the cache holds for it.
C25_LruNeverStale ==
    kind = "lru" =>
        \A x \in DOMAIN map : x \in DOMAIN db /\ map[x].value = db[x]

\* C25, reached: the update of a resident key failed at its write; the key
\* is stored but no longer resident, and another key is resident.
C25_Witness ==
    /\ kind = "lru"
    /\ last.op = "update"
    /\ last.res = Err(PutErr)
    /\ io = <<"put">>
    /\ last.key \in DOMAIN db
    /\ last.key \notin DOMAIN map
    /\ \E x \in DOMAIN map : map[x].value = db[x] /\ db[x] # db[last.key]

\* C26: for every resident section S of a SectionLruTable the in-memory map
\* is exactly the set of the Table's entries of section S, after any
\* sequence of calls, failing ones included; so contains_key(S, k), when it
\* answers, answers whether the Table holds (S, k).
C26_ResidentSectionExact ==
    kind = "sec" =>
        /\ \A S \in DOMAIN map : map[S].value = SectionOf(db, S)
        /\ (last.op = "contains_key" /\ IsOk(last.res)) =>
               last.res = Ok(last.key \in DOMAIN db)

\* C26, reached: contains_key answered from the map of a resident section,
\* for a key that the call before had deleted from the Table and the map.
C26_Witness ==
    /\ kind = "sec"
    /\ last.op = "contains_key"
    /\ io = <<>>
    /\ last.res = Ok(FALSE)
    /\ prev = "delete"
    /\ Cardinality(DOMAIN map[last.key[1]].value) = 1
    /\ age >= 2

====
